---- MODULE Spec2Model ----
(***************************************************************************)
(* PointCloudToGraphTransform of matsciml                                  *)
(* (matsciml/datasets/transforms/representations/graphs.py).               *)
(*                                                                         *)
(* A data sample is a dictionary from string keys to tagged values.  The   *)
(* transform is called as prologue -> convert -> epilogue on one sample    *)
(* and mutates it in place.  Atom positions are integer points on the      *)
(* x axis (y = z = 0), so that every Euclidean distance is an integer and  *)
(* the distances 0, "below the cutoff", "equal to the cutoff" and "above   *)
(* the cutoff" all occur.  Node and edge indices are 0-based as in Python; *)
(* TLA+ sequences are 1-based, so row i of a matrix is atom i-1.           *)
(***************************************************************************)
EXTENDS Integers, Sequences, FiniteSets, TLC

VARIABLES
    backend,      \* self.backend: "dgl" or "pyg"
    cutoff_dist,  \* self.cutoff_dist
    node_keys,    \* self._node_keys (de-duplicated)
    edge_keys,    \* self.edge_keys: [none, keys]
    data,         \* the sample dictionary, mutated in place
    sample0,      \* the sample as it was handed to the transform
    pc,           \* position in __call__ / in the edges_from_dist run
    err,          \* the exception that ended the call, "" if none
    warnings,     \* the warnings emitted by warn(...)
    dist_mat,     \* argument of the latest edges_from_dist call
    adj_list      \* result of the latest edges_from_dist call

vars == <<backend, cutoff_dist, node_keys, edge_keys, data, sample0, pc, err,
          warnings, dist_mat, adj_list>>

(***************************************************************************)
(* Bounds of the model.                                                    *)
(***************************************************************************)
MaxAtoms == 3
MaxCoord == 2
MaxCutoff == 2
MaxMatAtoms == 3
MaxDist == 2

(***************************************************************************)
(* Dictionaries and tagged values.                                         *)
(***************************************************************************)
EmptyDict == [k \in {} |-> 0]

Put(d, k, v) == (k :> v) @@ d

Del(d, k) == [x \in (DOMAIN d) \ {k} |-> d[x]]

Tensor(v) == [type |-> "tensor", v |-> v]

NdArray(v) == [type |-> "ndarray", v |-> v]

NoValue == [type |-> "none", v |-> <<>>]

Backends == {"dgl", "pyg"}

GraphTypes == {"dgl", "pyg"}

RECURSIVE SeqToSet(_)
SeqToSet(s) == IF s = <<>> THEN {} ELSE {Head(s)} \cup SeqToSet(Tail(s))

\* node_keys.setter: values = set(values); self._node_keys = list(values)
node_keys_setter(values) == SeqToSet(values)

\* the iteration orders list(set(values)) can have
Orders(S) == {o \in [1..Cardinality(S) -> S] : \A k \in S : \E i \in DOMAIN o : o[i] = k}

(***************************************************************************)
(* Tensor helpers.                                                         *)
(***************************************************************************)
RECURSIVE MaskSelect(_, _)
\* t[mask] for a boolean mask
MaskSelect(s, mask) ==
    IF s = <<>> THEN <<>>
    ELSE (IF Head(mask) THEN <<Head(s)>> ELSE <<>>) \o MaskSelect(Tail(s), Tail(mask))

\* the square root of a squared distance; exact for points on one axis, whose
\* squared distances are perfect squares
Isqrt(n) == CHOOSE r \in 0..n : r * r <= n /\ (r + 1) * (r + 1) > n

RECURSIVE Pow2Below(_, _)
\* the largest power of two p * 2^k that is <= x
Pow2Below(x, p) == IF 2 * p > x THEN p ELSE Pow2Below(x, 2 * p)

\* .to(torch.float16) on a non-negative integer value: 11 significant bits,
\* round half to even, overflow to infinity (written 65536)
Float16(x) ==
    IF x <= 2048 THEN x
    ELSE IF x >= 65520 THEN 65536
    ELSE LET ulp == Pow2Below(x, 1) \div 1024
             q == x \div ulp
             r == x % ulp
         IN  IF 2 * r < ulp THEN q * ulp
             ELSE IF 2 * r > ulp THEN (q + 1) * ulp
             ELSE IF q % 2 = 0 THEN q * ulp ELSE (q + 1) * ulp

\* torch.cdist(coords, coords, p=2)
cdist(coords) ==
    [i \in 1..Len(coords) |->
        [j \in 1..Len(coords) |->
            Isqrt((coords[i][1] - coords[j][1]) * (coords[i][1] - coords[j][1])
                + (coords[i][2] - coords[j][2]) * (coords[i][2] - coords[j][2])
                + (coords[i][3] - coords[j][3]) * (coords[i][3] - coords[j][3]))]]

\* node_distances: the two shape assertions, then cdist reduced to float16
node_distances(coords) ==
    IF \E i \in 1..Len(coords.v) : Len(coords.v[i]) # 3
    THEN [err |-> "AssertionError", val |-> NoValue]
    ELSE [err |-> "",
          val |-> Tensor([i \in 1..Len(coords.v) |->
                            [j \in 1..Len(coords.v) |-> Float16(cdist(coords.v)[i][j])]])]

\* torch.from_numpy: same values, tensor type
from_numpy(a) == Tensor(a.v)

\* torch.tril: entries above the main diagonal become 0, the diagonal stays
tril(m) == [i \in 1..Len(m) |-> [j \in 1..Len(m) |-> IF j <= i THEN m[i][j] ELSE 0]]

RECURSIVE argwhere(_, _)
\* torch.argwhere(mask).tolist(): the [row, col] index pairs in row-major order
argwhere(mask, k) ==
    IF k > Len(mask) * Len(mask) THEN <<>>
    ELSE LET i == ((k - 1) \div Len(mask)) + 1
             j == ((k - 1) % Len(mask)) + 1
         IN  (IF mask[i][j] THEN << <<i - 1, j - 1>> >> ELSE <<>>) \o argwhere(mask, k + 1)

edges_from_dist_incl(dm, cutoff) ==
    LET t == IF dm.type = "ndarray" THEN from_numpy(dm) ELSE dm
        lower_tri == tril(t.v)
        mask == [i \in 1..Len(lower_tri) |->
                    [j \in 1..Len(lower_tri) |->
                        (0 < lower_tri[i][j]) /\ (lower_tri[i][j] <= cutoff)]]
    IN  argwhere(mask, 1)

edges_from_dist_notril(dm, cutoff) ==
    LET t == IF dm.type = "ndarray" THEN from_numpy(dm) ELSE dm
        mask == [i \in 1..Len(t.v) |->
                    [j \in 1..Len(t.v) |-> (0 < t.v[i][j]) /\ (t.v[i][j] < cutoff)]]
    IN  argwhere(mask, 1)

edges_from_dist(dm, cutoff) ==
    LET t == IF dm.type = "ndarray" THEN from_numpy(dm) ELSE dm
        lower_tri == tril(t.v)
        mask == [i \in 1..Len(lower_tri) |->
                    [j \in 1..Len(lower_tri) |->
                        (0 < lower_tri[i][j]) /\ (lower_tri[i][j] < cutoff)]]
    IN  argwhere(mask, 1)

(***************************************************************************)
(* Validator and the steps of convert.                                     *)
(***************************************************************************)
\* RepresentationTransform._check_for_type: some value of the sample is of
\* one of the given types
_check_for_type(d, types) == \E k \in DOMAIN d : d[k].type \in types

prologue_nopos(d) ==
    IF _check_for_type(d, GraphTypes) THEN "AssertionError"
    ELSE IF ~ \E key \in {"atomic_numbers", "pc_features"} : key \in DOMAIN d
         THEN "AssertionError"
    ELSE ""

\* prologue: "" when the three assertions pass
prologue(d) ==
    IF _check_for_type(d, GraphTypes) THEN "AssertionError"
    ELSE IF "pos" \notin DOMAIN d THEN "AssertionError"
    ELSE IF ~ \E key \in {"atomic_numbers", "pc_features"} : key \in DOMAIN d
         THEN "AssertionError"
    ELSE ""

\* matsciml.datasets.utils.retrieve_pointcloud_node_types: the source and
\* destination atom types encoded in the pairwise feature block
retrieve_pointcloud_node_types(pc_features) ==
    <<Tensor(pc_features.v[1]), Tensor(pc_features.v[2])>>

get_atom_types(d) ==
    IF "atomic_numbers" \in DOMAIN d THEN [err |-> "", val |-> d["atomic_numbers"]]
    ELSE IF "pc_features" \in DOMAIN d
         THEN IF "pos" \notin DOMAIN d THEN [err |-> "KeyError", val |-> NoValue]
              ELSE IF Len(retrieve_pointcloud_node_types(d["pc_features"])[1].v)
                        # Len(d["pos"].v)
                   THEN [err |-> "AssertionError", val |-> NoValue]
              ELSE [err |-> "",
                    val |-> retrieve_pointcloud_node_types(d["pc_features"])[1]]
    ELSE [err |-> "KeyError", val |-> NoValue]

\* _apply_mask: src_mask if the sample has one, else atomic_numbers > 0
_apply_mask(atomic_numbers, pos, d) ==
    LET mask == IF "src_mask" \in DOMAIN d THEN d["src_mask"].v
                ELSE [i \in 1..Len(atomic_numbers.v) |-> atomic_numbers.v[i] > 0]
    IN  <<Tensor(MaskSelect(atomic_numbers.v, mask)), Tensor(MaskSelect(pos.v, mask))>>

(***************************************************************************)
(* The two graph libraries, as far as the transform uses them.             *)
(***************************************************************************)
\* dgl.graph(adj_list, num_nodes=n): rejects a node ID >= num_nodes
dgl_graph(adj, num_nodes) ==
    IF \E k \in 1..Len(adj) : adj[k][1] >= num_nodes \/ adj[k][2] >= num_nodes
    THEN [err |-> "DGLError", val |-> NoValue]
    ELSE [err |-> "",
          val |-> [type |-> "dgl", num_nodes |-> num_nodes, edges |-> adj,
                   ndata |-> EmptyDict, edata |-> EmptyDict]]

\* g.ndata[key] = value: the value needs one row per node
dgl_set_ndata(g, key, value) ==
    IF Len(value.v) # g.num_nodes THEN [err |-> "DGLError", val |-> g]
    ELSE [err |-> "", val |-> [g EXCEPT !.ndata = Put(g.ndata, key, value)]]

\* g.edata[key] = value: the value needs one row per edge
dgl_set_edata(g, key, value) ==
    IF Len(value.v) # Len(g.edges) THEN [err |-> "DGLError", val |-> g]
    ELSE [err |-> "", val |-> [g EXCEPT !.edata = Put(g.edata, key, value)]]

\* lexicographic order on index pairs
PairLess(a, b) == a[1] < b[1] \/ (a[1] = b[1] /\ a[2] < b[2])

RECURSIVE SortPairs(_)
SortPairs(S) ==
    IF S = {} THEN <<>>
    ELSE LET m == CHOOSE a \in S : \A b \in S \ {a} : PairLess(a, b)
         IN  <<m>> \o SortPairs(S \ {m})

to_bidirected_noreverse(g) ==
    [g EXCEPT !.edges = SortPairs({g.edges[k] : k \in 1..Len(g.edges)}),
              !.edata = EmptyDict]

\* dgl.to_bidirected(g, copy_ndata=True): the reverse of every edge is added,
\* duplicate edges are removed, node data is kept and edge data is dropped
to_bidirected(g) ==
    [g EXCEPT !.edges = SortPairs({g.edges[k] : k \in 1..Len(g.edges)}
                                  \cup {<<g.edges[k][2], g.edges[k][1]>> : k \in 1..Len(g.edges)}),
              !.edata = EmptyDict]

\* torch.LongTensor(list of pairs): an empty list gives a 1-D tensor of size 0
LongTensor(adj) ==
    IF adj = <<>> THEN [shape |-> <<0>>, rows |-> <<>>]
    ELSE [shape |-> <<Len(adj), 2>>, rows |-> adj]

\* tensor.T.contiguous() of a 2-D tensor
Transpose(t) ==
    [shape |-> <<t.shape[2], t.shape[1]>>,
     rows |-> [c \in 1..t.shape[2] |-> [r \in 1..t.shape[1] |-> t.rows[r][c]]]]

\* torch_geometric.data.Data(edge_index=..., pos=...): attributes are stored
\* as given, without validation
PyGGraph(edge_index, pos) ==
    [type |-> "pyg",
     store |-> Put(Put(EmptyDict, "edge_index", edge_index), "pos", pos)]

pyg_setattr(g, key, value) == [g EXCEPT !.store = Put(g.store, key, value)]

(***************************************************************************)
(* convert.                                                                *)
(***************************************************************************)
Failed(e, d) == [err |-> e, data |-> d, dist |-> NoValue, adj |-> <<>>]

\* the part shared by _convert_dgl and _convert_pyg: atom types, mask,
\* distance matrix (computed only if the sample has none) and edge list
convert_common(d) ==
    LET types == get_atom_types(d) IN
    IF types.err # "" THEN [err |-> types.err]
    ELSE IF "pos" \notin DOMAIN d THEN [err |-> "KeyError"]
    ELSE LET masked == _apply_mask(types.val, d["pos"], d)
             dm == IF "distance_matrix" \notin DOMAIN d
                   THEN node_distances(masked[2])
                   ELSE [err |-> "", val |-> d["distance_matrix"]]
         IN  IF dm.err # "" THEN [err |-> dm.err]
             ELSE [err |-> "", atom_numbers |-> masked[1], coords |-> masked[2],
                   dist |-> dm.val, adj |-> edges_from_dist(dm.val, cutoff_dist)]

_convert_dgl(d) ==
    LET c == convert_common(d) IN
    IF c.err # "" THEN Failed(c.err, d)
    ELSE LET g == dgl_graph(c.adj, Len(c.atom_numbers.v)) IN
         IF g.err # "" THEN [err |-> g.err, data |-> d, dist |-> c.dist, adj |-> c.adj]
         ELSE LET g1 == dgl_set_ndata(g.val, "atomic_numbers", c.atom_numbers).val
                  g2 == dgl_set_ndata(g1, "pos", c.coords).val
              IN  [err |-> "", data |-> Put(d, "graph", g2), dist |-> c.dist, adj |-> c.adj]

_convert_pyg(d) ==
    LET c == convert_common(d) IN
    IF c.err # "" THEN Failed(c.err, d)
    ELSE LET edge_index == LongTensor(c.adj) IN
         \* edge_index.size(1) of a 1-D tensor raises IndexError
         IF edge_index.shape[1] # 2 /\ Len(edge_index.shape) < 2
         THEN [err |-> "IndexError", data |-> d, dist |-> c.dist, adj |-> c.adj]
         ELSE LET ei == IF edge_index.shape[1] # 2 /\ edge_index.shape[2] = 2
                        THEN Transpose(edge_index) ELSE edge_index
                  g == pyg_setattr(PyGGraph(ei, c.coords), "atomic_numbers", c.atom_numbers)
              IN  [err |-> "", data |-> Put(d, "graph", g), dist |-> c.dist, adj |-> c.adj]

convert(d) == IF backend = "dgl" THEN _convert_dgl(d) ELSE _convert_pyg(d)

(***************************************************************************)
(* Attribute copier and finalizer.  A copier result is                     *)
(* [err, graph, warns]; keys is the order in which the keys are visited.   *)
(***************************************************************************)
RECURSIVE _copy_node_keys_dgl(_, _, _, _)
_copy_node_keys_dgl(d, graph, keys, warns) ==
    IF keys = <<>> THEN [err |-> "", graph |-> graph, warns |-> warns]
    ELSE IF Head(keys) \notin DOMAIN d
         THEN _copy_node_keys_dgl(d, graph, Tail(keys), warns \cup {<<"node", Head(keys)>>})
    ELSE IF dgl_set_ndata(graph, Head(keys), d[Head(keys)]).err # ""
         THEN [err |-> "DGLError", graph |-> graph, warns |-> warns]
    ELSE _copy_node_keys_dgl(d, dgl_set_ndata(graph, Head(keys), d[Head(keys)]).val,
                             Tail(keys), warns)

RECURSIVE _copy_edge_keys_dgl(_, _, _, _)
_copy_edge_keys_dgl(d, graph, keys, warns) ==
    IF keys = <<>> THEN [err |-> "", graph |-> graph, warns |-> warns]
    ELSE IF Head(keys) \notin DOMAIN d
         THEN _copy_edge_keys_dgl(d, graph, Tail(keys), warns \cup {<<"edge", Head(keys)>>})
    ELSE IF dgl_set_edata(graph, Head(keys), d[Head(keys)]).err # ""
         THEN [err |-> "DGLError", graph |-> graph, warns |-> warns]
    ELSE _copy_edge_keys_dgl(d, dgl_set_edata(graph, Head(keys), d[Head(keys)]).val,
                             Tail(keys), warns)

RECURSIVE _copy_node_keys_pyg(_, _, _, _)
_copy_node_keys_pyg(d, graph, keys, warns) ==
    IF keys = <<>> THEN [err |-> "", graph |-> graph, warns |-> warns]
    ELSE IF Head(keys) \notin DOMAIN d
         THEN _copy_node_keys_pyg(d, graph, Tail(keys), warns \cup {<<"node", Head(keys)>>})
    ELSE _copy_node_keys_pyg(d, pyg_setattr(graph, Head(keys), d[Head(keys)]),
                             Tail(keys), warns)

RECURSIVE _copy_edge_keys_pyg(_, _, _, _)
_copy_edge_keys_pyg(d, graph, keys, warns) ==
    IF keys = <<>> THEN [err |-> "", graph |-> graph, warns |-> warns]
    ELSE IF Head(keys) \notin DOMAIN d
         THEN _copy_edge_keys_pyg(d, graph, Tail(keys), warns \cup {<<"edge", Head(keys)>>})
    ELSE _copy_edge_keys_pyg(d, pyg_setattr(graph, Head(keys), d[Head(keys)]),
                             Tail(keys), warns)

copy_node_keys_failfast(d, graph, order) ==
    IF \E i \in DOMAIN order : order[i] \notin DOMAIN d
    THEN [err |-> "KeyError", graph |-> graph, warns |-> {}]
    ELSE IF backend = "dgl" THEN _copy_node_keys_dgl(d, graph, order, {})
    ELSE _copy_node_keys_pyg(d, graph, order, {})

\* copy_node_keys; order is the iteration order of self.node_keys
copy_node_keys(d, graph, order) ==
    IF backend = "dgl" THEN _copy_node_keys_dgl(d, graph, order, {})
    ELSE _copy_node_keys_pyg(d, graph, order, {})

\* copy_edge_keys: nothing to do when edge_keys is None or empty
copy_edge_keys(d, graph, warns) ==
    IF edge_keys.none \/ edge_keys.keys = <<>>
    THEN [err |-> "", graph |-> graph, warns |-> warns]
    ELSE IF backend = "dgl" THEN _copy_edge_keys_dgl(d, graph, edge_keys.keys, warns)
    ELSE _copy_edge_keys_pyg(d, graph, edge_keys.keys, warns)

RemovedKeysShort ==
    <<"pos", "pc_features", "distance_matrix", "atomic_numbers", "src_nodes", "dst_nodes">>

\* the keys epilogue deletes from the sample
RemovedKeys ==
    <<"pos", "pc_features", "distance_matrix", "atomic_numbers", "src_nodes",
      "dst_nodes", "sizes">>

RECURSIVE DelKeys(_, _)
\* try: del data[key] / except KeyError: pass, for each key
DelKeys(d, keys) ==
    IF keys = <<>> THEN d ELSE DelKeys(Del(d, Head(keys)), Tail(keys))

\* epilogue: copy the configured keys onto the graph (which the sample holds
\* by reference), drop the point-cloud keys, symmetrize a DGL graph
epilogue(d, order) ==
    LET n == copy_node_keys(d, d["graph"], order) IN
    IF n.err # "" THEN [err |-> n.err, data |-> Put(d, "graph", n.graph), warns |-> n.warns]
    ELSE LET e == copy_edge_keys(d, n.graph, n.warns) IN
         IF e.err # "" THEN [err |-> e.err, data |-> Put(d, "graph", e.graph), warns |-> e.warns]
         ELSE LET stripped == DelKeys(Put(d, "graph", e.graph), RemovedKeys) IN
              [err |-> "",
               data |-> IF backend = "dgl"
                        THEN Put(stripped, "graph", to_bidirected(stripped["graph"]))
                        ELSE stripped,
               warns |-> e.warns]

(***************************************************************************)
(* Samples and configurations the transform is run on.                     *)
(***************************************************************************)
AtomLabels == {0, 1}

\* PointCloudToGraphTransform.__init__: the default node_keys, the node_keys
\* of examples/.../single_task_egnn.py, a list with a duplicate, no keys
NodeKeyConfigs ==
    {<<"atomic_numbers", "force">>, <<"pos", "atomic_numbers">>, <<"force", "force">>, <<>>}

DefaultNodeKeys == <<"atomic_numbers", "force">>

\* edge_keys: None (the default), an empty list, two keys
DefaultEdgeKeys == [none |-> TRUE, keys |-> <<>>]

EdgeKeyConfigs ==
    {DefaultEdgeKeys, [none |-> FALSE, keys |-> <<>>],
     [none |-> FALSE, keys |-> <<"bond", "angle">>]}

Opt(cond, k, v) == IF cond THEN k :> v ELSE EmptyDict

Positions(xs) == [i \in 1..Len(xs) |-> <<xs[i], 0, 0>>]

\* the number of atom pairs of xs that edges_from_dist connects under cutoff c
\* when no atom is masked out
NumPairsBelow(xs, c) ==
    Cardinality({p \in (1..Len(xs)) \X (1..Len(xs)) :
                    p[1] > p[2] /\ xs[p[1]] # xs[p[2]]
                    /\ cdist(Positions(xs))[p[1]][p[2]] < c})

\* A sample: positions xs on the x axis, atom labels, where the labels are
\* stored (source), an optional src_mask (<<>>: none), an optional
\* precomputed distance matrix of all atoms, optional per-atom and per-edge
\* attributes, the other point-cloud keys (aux), a graph that is already there
Sample(xs, labels, source, mask, hasDm, hasPos, extras, aux, pre, c) ==
    ("targets" :> Tensor(<<7>>))
    @@ Opt(hasPos, "pos", Tensor(Positions(xs)))
    @@ Opt(source \in {"atomic_numbers", "both"}, "atomic_numbers", Tensor(labels))
    @@ Opt(source \in {"pc_features", "both"}, "pc_features", Tensor(<<labels, labels>>))
    @@ Opt(source = "pc_mismatch", "pc_features", Tensor(<<Tail(labels), labels>>))
    @@ Opt(mask # <<>>, "src_mask", Tensor(mask))
    @@ Opt(hasDm, "distance_matrix", NdArray(cdist(Positions(xs))))
    @@ Opt("force" \in extras, "force", Tensor([i \in 1..Len(xs) |-> 10 + i]))
    @@ Opt("bond" \in extras, "bond", Tensor([i \in 1..NumPairsBelow(xs, c) |-> 20 + i]))
    @@ Opt(aux, "sizes", Tensor(<<Len(xs)>>))
    @@ Opt(aux, "src_nodes", Tensor([i \in 1..Len(xs) |-> i - 1]))
    @@ Opt(aux, "dst_nodes", Tensor([i \in 1..Len(xs) |-> i - 1]))
    @@ Opt(pre = "graph", "graph",
           [type |-> "dgl", num_nodes |-> Len(xs), edges |-> <<>>,
            ndata |-> EmptyDict, edata |-> EmptyDict])
    @@ Opt(pre = "other", "cached",
           [type |-> "pyg", store |-> EmptyDict])

InitCommon ==
    /\ sample0 = data
    /\ pc = "start"
    /\ err = ""
    /\ warnings = {}
    /\ dist_mat = NoValue
    /\ adj_list = <<>>

\* every geometry, padding by label or by src_mask, with and without a
\* precomputed distance matrix, under the default key configuration
InitGeometry ==
    /\ backend \in Backends
    /\ cutoff_dist \in 1..MaxCutoff
    /\ node_keys = node_keys_setter(DefaultNodeKeys)
    /\ edge_keys = DefaultEdgeKeys
    /\ \E n \in 1..MaxAtoms :
        \E xs \in [1..n -> 0..MaxCoord], labels \in [1..n -> AtomLabels],
           mask \in {<<>>} \cup [1..n -> BOOLEAN], hasDm \in BOOLEAN :
            /\ (mask # <<>> => \A i \in 1..n : labels[i] = 1)
            /\ data = Sample(xs, labels, "atomic_numbers", mask, hasDm, TRUE, {}, TRUE,
                             "none", cutoff_dist)
    /\ InitCommon

\* two fixed geometries (without and with a padding atom), every key
\* configuration and every combination of present and absent keys
InitKeys ==
    /\ backend \in Backends
    /\ cutoff_dist \in 1..MaxCutoff
    /\ \E values \in NodeKeyConfigs : node_keys = node_keys_setter(values)
    /\ edge_keys \in EdgeKeyConfigs
    /\ \E labels \in {<<1, 1>>, <<1, 0>>},
          source \in {"atomic_numbers", "pc_features", "both", "none", "pc_mismatch"},
          hasPos \in BOOLEAN, extras \in SUBSET {"force", "bond"}, aux \in BOOLEAN,
          pre \in {"none", "graph", "other"} :
            data = Sample(<<0, 1>>, labels, source, <<>>, FALSE, hasPos, extras, aux,
                          pre, cutoff_dist)
    /\ InitCommon

Init == InitGeometry \/ InitKeys

(***************************************************************************)
(* __call__: prologue, convert, epilogue.                                  *)
(***************************************************************************)
Prologue ==
    /\ pc = "start"
    /\ err' = prologue(data)
    /\ pc' = IF prologue(data) = "" THEN "validated" ELSE "prologue_failed"
    /\ UNCHANGED <<backend, cutoff_dist, node_keys, edge_keys, data, sample0, warnings,
                   dist_mat, adj_list>>

Convert ==
    /\ pc = "validated"
    /\ data' = convert(data).data
    /\ err' = convert(data).err
    /\ pc' = IF convert(data).err = "" THEN "converted" ELSE "convert_failed"
    /\ dist_mat' = convert(data).dist
    /\ adj_list' = convert(data).adj
    /\ UNCHANGED <<backend, cutoff_dist, node_keys, edge_keys, sample0, warnings>>

Epilogue ==
    /\ pc = "converted"
    /\ \E order \in Orders(node_keys) :
        /\ data' = epilogue(data, order).data
        /\ err' = epilogue(data, order).err
        /\ warnings' = warnings \cup epilogue(data, order).warns
        /\ pc' = IF epilogue(data, order).err = "" THEN "done" ELSE "epilogue_failed"
    /\ UNCHANGED <<backend, cutoff_dist, node_keys, edge_keys, sample0, dist_mat, adj_list>>

Next == Prologue \/ Convert \/ Epilogue

Spec == Init /\ [][Next]_vars

(***************************************************************************)
(* edges_from_dist on its own: every symmetric matrix with a zero diagonal *)
(* and entries up to MaxDist, as a numpy array or as a tensor.             *)
(***************************************************************************)
DistanceMatrices(n) ==
    {[i \in 1..n |-> [j \in 1..n |->
        IF i = j THEN 0 ELSE IF i > j THEN f[<<i, j>>] ELSE f[<<j, i>>]]] :
        f \in [{p \in (1..n) \X (1..n) : p[1] > p[2]} -> 0..MaxDist]}

InitEdges ==
    /\ backend = "dgl"
    /\ cutoff_dist \in 1..MaxCutoff
    /\ node_keys = {}
    /\ edge_keys = DefaultEdgeKeys
    /\ data = EmptyDict
    /\ sample0 = EmptyDict
    /\ pc = "edges_start"
    /\ err = ""
    /\ warnings = {}
    /\ \E n \in 1..MaxMatAtoms :
        \E m \in DistanceMatrices(n) : dist_mat \in {Tensor(m), NdArray(m)}
    /\ adj_list = <<>>

EdgesFromDist ==
    /\ pc = "edges_start"
    /\ adj_list' = edges_from_dist(dist_mat, cutoff_dist)
    /\ pc' = "edges_done"
    /\ UNCHANGED <<backend, cutoff_dist, node_keys, edge_keys, data, sample0, err,
                   warnings, dist_mat>>

NextEdges == EdgesFromDist

SpecEdges == InitEdges /\ [][NextEdges]_vars

(***************************************************************************)
(* Vocabulary of the properties.                                           *)
(***************************************************************************)
HasNodeAttr(g, k) == IF g.type = "dgl" THEN k \in DOMAIN g.ndata ELSE k \in DOMAIN g.store

NodeAttr(g, k) == IF g.type = "dgl" THEN g.ndata[k] ELSE g.store[k]

\* every node index an edge of the graph refers to
GraphEndpoints(g) ==
    IF g.type = "dgl"
    THEN {g.edges[k][1] : k \in 1..Len(g.edges)} \cup {g.edges[k][2] : k \in 1..Len(g.edges)}
    ELSE {g.store["edge_index"].rows[r][c] :
            r \in 1..g.store["edge_index"].shape[1], c \in 1..g.store["edge_index"].shape[2]}

NumEdges(g) ==
    IF g.type = "dgl" THEN Len(g.edges)
    ELSE Cardinality(GraphEndpoints(g)) \* 0 exactly when the edge index is empty

\* the number of atoms of the original sample that the mask retains
RetainedCount ==
    Cardinality({i \in 1..Len(sample0["pos"].v) :
        IF "src_mask" \in DOMAIN sample0 THEN sample0["src_mask"].v[i]
        ELSE IF "atomic_numbers" \in DOMAIN sample0 THEN sample0["atomic_numbers"].v[i] > 0
        ELSE sample0["pc_features"].v[1][i] > 0})

IsBidirected(edges) ==
    \A k \in 1..Len(edges) : \E l \in 1..Len(edges) : edges[l] = <<edges[k][2], edges[k][1]>>

NoDuplicateEdge(edges) ==
    \A k, l \in 1..Len(edges) : k # l => edges[k] # edges[l]

(***************************************************************************)
(* C1: after the full transform the sample has the key 'graph', which it   *)
(* did not have before; pos, pc_features, distance_matrix, atomic_numbers, *)
(* src_nodes, dst_nodes and sizes are gone whether or not they were there; *)
(* every other key is still there with its value unchanged.                *)
(***************************************************************************)
C1_FrameEffect ==
    pc = "done" =>
        /\ "graph" \in DOMAIN data
        /\ "graph" \notin DOMAIN sample0
        /\ \A k \in {"pos", "pc_features", "distance_matrix", "atomic_numbers",
                     "src_nodes", "dst_nodes", "sizes"} : k \notin DOMAIN data
        /\ \A k \in (DOMAIN sample0) \ {"pos", "pc_features", "distance_matrix",
                                        "atomic_numbers", "src_nodes", "dst_nodes", "sizes"} :
                k \in DOMAIN data /\ data[k] = sample0[k]

C1_Witness ==
    /\ pc = "done"
    /\ {"sizes", "src_nodes", "pos", "atomic_numbers", "force", "targets"} \subseteq DOMAIN sample0
    /\ "distance_matrix" \notin DOMAIN sample0
    /\ "pc_features" \notin DOMAIN sample0

(***************************************************************************)
(* C2: the validator fails with an assertion error exactly when the sample *)
(* holds a graph-typed value, or has no 'pos', or has neither              *)
(* 'atomic_numbers' nor 'pc_features'; whether it fails or returns, the    *)
(* sample is left as it was and no graph is created.                       *)
(***************************************************************************)
C2_Validator ==
    pc # "start" /\ pc # "edges_start" /\ pc # "edges_done" =>
        /\ (pc = "prologue_failed") <=>
              \/ \E k \in DOMAIN sample0 : sample0[k].type \in {"dgl", "pyg"}
              \/ "pos" \notin DOMAIN sample0
              \/ ("atomic_numbers" \notin DOMAIN sample0 /\ "pc_features" \notin DOMAIN sample0)
        /\ pc = "prologue_failed" =>
              err = "AssertionError" /\ data = sample0 /\ DOMAIN data = DOMAIN sample0
        /\ pc = "validated" => err = "" /\ data = sample0

C2_Witness ==
    /\ pc = "prologue_failed"
    /\ "pos" \notin DOMAIN sample0
    /\ "atomic_numbers" \in DOMAIN sample0
    /\ ~ \E k \in DOMAIN sample0 : sample0[k].type \in {"dgl", "pyg"}

(***************************************************************************)
(* C3: with the dgl backend, the step of the finalizer leaves a graph in   *)
(* which every edge (u,v) has its reverse (v,u), no directed pair occurs   *)
(* twice, and the node count and the node attributes are those of the      *)
(* graph after the attribute copy, before symmetrization; the graph that   *)
(* convert alone built has no reverse edge, so it is not bidirected as     *)
(* soon as it has an edge.                                                 *)
(***************************************************************************)
C3_Bidirected ==
    [][ /\ (pc = "converted" /\ backend = "dgl" /\ data["graph"].edges # <<>>)
            => ~ IsBidirected(data["graph"].edges)
        /\ (pc = "converted" /\ pc' = "done" /\ backend = "dgl") =>
            /\ IsBidirected(data'["graph"].edges)
            /\ NoDuplicateEdge(data'["graph"].edges)
            /\ data'["graph"].num_nodes = data["graph"].num_nodes
            /\ \E order \in Orders(node_keys) :
                  data'["graph"].ndata = copy_node_keys(data, data["graph"], order).graph.ndata
            /\ {"atomic_numbers", "pos"} \subseteq DOMAIN data'["graph"].ndata
      ]_vars

C3_Witness ==
    /\ pc = "done"
    /\ backend = "dgl"
    /\ Len(data["graph"].edges) >= 4
    /\ Len(adj_list) >= 2

(***************************************************************************)
(* C4: edges_from_dist is exclusive at both bounds: every returned pair    *)
(* has a distance d with 0 < d < cutoff, every lower-triangular pair with  *)
(* 0 < d < cutoff is returned, and two distinct atoms at distance 0 or at  *)
(* distance exactly cutoff get no edge in either direction.                *)
(***************************************************************************)
C4_CutoffExclusive ==
    pc = "edges_done" =>
        /\ \A k \in 1..Len(adj_list) :
              /\ 0 < dist_mat.v[adj_list[k][1] + 1][adj_list[k][2] + 1]
              /\ dist_mat.v[adj_list[k][1] + 1][adj_list[k][2] + 1] < cutoff_dist
        /\ \A i, j \in 1..Len(dist_mat.v) :
              (j <= i /\ 0 < dist_mat.v[i][j] /\ dist_mat.v[i][j] < cutoff_dist)
                  => \E k \in 1..Len(adj_list) : adj_list[k] = <<i - 1, j - 1>>
        /\ \A i, j \in 1..Len(dist_mat.v) :
              (i # j /\ (dist_mat.v[i][j] = 0 \/ dist_mat.v[i][j] = cutoff_dist))
                  => \A k \in 1..Len(adj_list) :
                        adj_list[k] # <<i - 1, j - 1>> /\ adj_list[k] # <<j - 1, i - 1>>

C4_Witness ==
    /\ pc = "edges_done"
    /\ adj_list # <<>>
    /\ \E i, j \in 1..Len(dist_mat.v) : i # j /\ dist_mat.v[i][j] = 0
    /\ \E i, j \in 1..Len(dist_mat.v) : i # j /\ dist_mat.v[i][j] = cutoff_dist

(***************************************************************************)
(* C5: after a successful transform the graph carries 'atomic_numbers' and *)
(* 'pos' as node attributes, each with exactly one entry per atom retained *)
(* by the mask.                                                            *)
(***************************************************************************)
C5_OneEntryPerRetainedAtom ==
    pc = "done" =>
        /\ HasNodeAttr(data["graph"], "atomic_numbers")
        /\ HasNodeAttr(data["graph"], "pos")
        /\ Len(NodeAttr(data["graph"], "atomic_numbers").v) = RetainedCount
        /\ Len(NodeAttr(data["graph"], "pos").v) = RetainedCount

(***************************************************************************)
(* C6: for a valid sample in which no atom pair has 0 < distance < cutoff, *)
(* convert and the finalizer complete without error with either backend,   *)
(* and the graph has every retained atom as a node and no edge.            *)
(***************************************************************************)
C6_ZeroEdgesTolerated ==
    (/\ pc \in {"validated", "converted", "convert_failed", "done", "epilogue_failed"}
     /\ convert_common(sample0).err = ""
     /\ convert_common(sample0).adj = <<>>) =>
        /\ pc \notin {"convert_failed", "epilogue_failed"}
        /\ pc \in {"converted", "done"} =>
              /\ Len(NodeAttr(data["graph"], "pos").v) = RetainedCount
              /\ NumEdges(data["graph"]) = 0

C8_OneEdgePerPair ==
    /\ \A k \in 1..Len(adj_list) : adj_list[k][1] # adj_list[k][2]
    /\ \A k, l \in 1..Len(adj_list) : adj_list[l] # <<adj_list[k][2], adj_list[k][1]>>
    /\ NoDuplicateEdge(adj_list)

C8_Witness ==
    /\ pc = "converted"
    /\ "distance_matrix" \in DOMAIN sample0
    /\ Len(adj_list) >= 2

(***************************************************************************)
(* C9: with the pyg backend the edge index on the graph has exactly two    *)
(* rows for every number E >= 1 of edges, and its column k is the k-th     *)
(* pair (row_k, col_k) of the edge list of edges_from_dist.                *)
(***************************************************************************)
C9_EdgeIndexTwoByE ==
    (pc \in {"converted", "done"} /\ backend = "pyg" /\ Len(adj_list) >= 1) =>
        /\ data["graph"].store["edge_index"].shape = <<2, Len(adj_list)>>
        /\ \A k \in 1..Len(adj_list) :
              /\ data["graph"].store["edge_index"].rows[1][k] = adj_list[k][1]
              /\ data["graph"].store["edge_index"].rows[2][k] = adj_list[k][2]

(***************************************************************************)
(* C10: every edge endpoint of the graph built by convert is a node index  *)
(* in 0 .. num_nodes-1, num_nodes being the number of retained atoms.      *)
(***************************************************************************)
C10_EndpointsAreNodes ==
    pc \in {"converted", "done"} =>
        \A e \in GraphEndpoints(data["graph"]) : 0 <= e /\ e < RetainedCount

====
